---- MODULE Spec2Model ----
(***************************************************************************)
(* Niche Researcher scraper engine (src/scraper_engine.py).                *)
(*                                                                         *)
(* Four layers of the engine are modelled, each with its own               *)
(* specification over the same variables:                                  *)
(*   SpecProxy  - ProxyManager.get_proxy called by concurrent workers,     *)
(*                one bytecode-level step per read or write of             *)
(*                current_index;                                           *)
(*   SpecFetch  - one call of ScraperEngine._make_request_with_retry, with *)
(*                its retry loop, backoff, CAPTCHA escalation and the      *)
(*                operator hand-off;                                       *)
(*   SpecSched  - one call of ScraperEngine.scrape_all_platforms, with     *)
(*                the thread pool, the submission loop and the collection  *)
(*                loop;                                                    *)
(*   SpecExtract - one call of a scrape_* method on a fetched document:    *)
(*                container selection with its fallback and the per-item   *)
(*                parsing loop.                                            *)
(***************************************************************************)
EXTENDS Integers, Sequences, FiniteSets, Bags, TLC

\* ------------------------------------------------------------------ bounds
MaxProxies == 3     \* largest number of configured proxy providers
MaxCallers == 2     \* workers that call get_proxy concurrently
MaxCalls == 4       \* get_proxy calls made by those workers together
MaxRetries == 3     \* largest configured scraping.max_retries
MaxDelay == 2       \* largest configured scraping.delay_between_requests
MaxWorkers == 2     \* largest max_workers argument
MaxItems == 1       \* most records one scraping task extracts
MaxExtra == 1       \* most containers a document has beyond the YouTube limit
MaxFallback == 2    \* most containers the fallback selector matches

\* Python's None
NoneVal == "None"

Min(a, b) == IF a <= b THEN a ELSE b

VARIABLES
    \* ProxyManager (src/scraper_engine.py:61-65)
    enabled,            \* self.enabled
    rotation,           \* self.rotation
    proxies,            \* self.proxies, a sequence of provider records
    current_index,      \* self.current_index
    \* workers inside get_proxy (SpecProxy)
    callers,            \* worker -> [pc, proxy, tmp, calls]
    call_log,           \* the returned values, in order of return
    overlap,            \* TRUE once two calls were in progress at the same time
    \* ScraperEngine retry settings (src/scraper_engine.py:97-99)
    max_retries,
    delay,
    \* one call of _make_request_with_retry (SpecFetch)
    frames,             \* the call stack: [use_browser, attempt, url] per frame
    fpc,                \* where the innermost frame stands
    page_source,        \* driver.page_source of the open browser session
    retval,             \* the value being returned through the frames
    fresult,            \* the value the outermost call returned
    trace,              \* what the call did, in order
    \* one call of scrape_all_platforms (SpecSched)
    platforms_config,   \* self.platforms_config, a sequence of platform dicts
    max_workers,        \* the argument of the call
    scraping_tasks,     \* the (platform, param) pairs, in order
    spc,                \* where the calling thread stands: "idle", "pool",
                        \* "with" (in the with block), "returned", "raised"
    futures,            \* the submitted tasks, in order of submission
    work_queue,         \* the pool's queue of work items not yet taken
    num_threads,        \* the worker threads the pool has started
    idle_semaphore,     \* the pool's count of workers that went idle
    tstate,             \* task -> "new", "queued", "running" or "done"
    tresult,            \* task -> [kind, data], the way its method ended
    submit_pos,         \* the submission loop's position in scraping_tasks
    collect_pos,        \* the collection loop's position in futures
    all_data,           \* the aggregated records
    origin,             \* for each record of all_data, the task it came from
    done_order,         \* the tasks in the order they completed
    \* one call of a scrape_* method (SpecExtract)
    scrape_task,        \* the (platform, param) pair the method was called for
    scrape_html,        \* html_content, what _make_request_with_retry returned
    scrape_matched,     \* hashtags / products / posts / videos
    scrape_applied,     \* the container selectors applied so far, in order
    scrape_pc,          \* "idle", "fetched", "fallback", "loop", "returned"
    scrape_pos,         \* the parsing loop's position in the containers
    scrape_data         \* data, the records appended so far

proxyVars == <<enabled, rotation, proxies, current_index>>
callVars == <<callers, call_log, overlap>>
retryVars == <<max_retries, delay>>
fetchVars == <<frames, fpc, page_source, retval, fresult, trace>>

schedVars == <<platforms_config, max_workers, scraping_tasks, spc, futures,
               work_queue, num_threads, idle_semaphore, tstate, tresult,
               submit_pos, collect_pos,
               all_data, origin, done_order>>

extractVars == <<scrape_task, scrape_html, scrape_matched, scrape_applied,
                 scrape_pc, scrape_pos, scrape_data>>

vars == <<proxyVars, callVars, retryVars, fetchVars, schedVars, extractVars>>

\* ------------------------------------------------------------ ProxyManager

\* proxy_config['providers']: the first n of the configured endpoints
Providers(n) == [x \in 1..n |-> [url |-> "proxy" \o ToString(x)]]

ProxyConfigs == [enabled : BOOLEAN, rotation : BOOLEAN, n : 0..MaxProxies]

\* ProxyManager.__init__
ProxyInit(cfg) ==
    /\ enabled = cfg.enabled
    /\ rotation = cfg.rotation
    /\ proxies = Providers(cfg.n)
    /\ current_index = 0

\* a plausible slip: the enabled switch is not looked at
NoProxyIgnoresEnabled == Len(proxies) = 0

\* line 69: `not self.enabled or not self.proxies`
NoProxy == ~enabled \/ Len(proxies) = 0

\* line 73 / line 76: the provider picked (Python indexes from 0)
PickProxy(idx) == proxies[idx + 1]

\* a plausible slip: the increment is lost
AdvanceCursorStuck(idx) == idx % Len(proxies)

\* a plausible slip: the cursor is not wrapped
AdvanceCursorNoWrap(idx) == idx + 1

\* line 74: the value stored into self.current_index
AdvanceCursor(idx) == (idx + 1) % Len(proxies)

\* line 78: proxy.get('url')
ProxyUrl(proxy) == proxy.url

\* a plausible slip: the sticky branch is lost and every call rotates
BranchAlwaysRotates == IF NoProxy THEN "l70" ELSE "l73"

\* lines 69-76: the line get_proxy goes to: 70 (return None), 73 (rotate)
\* or 76 (sticky)
Branch == IF NoProxy THEN "l70" ELSE IF rotation THEN "l73" ELSE "l76"

\* get_proxy run without interruption: the returned value
GetProxyResult ==
    CASE Branch = "l70" -> NoneVal
      [] Branch = "l73" -> ProxyUrl(PickProxy(current_index))
      [] Branch = "l76" -> ProxyUrl(PickProxy(0))

\* get_proxy run without interruption: the cursor it leaves
GetProxyCursor ==
    IF Branch = "l73" THEN AdvanceCursor(current_index) ELSE current_index

\* The fetch variables, idle (no fetch call in progress)
FetchIdle ==
    /\ frames = <<>>
    /\ fpc = "idle"
    /\ page_source = NoneVal
    /\ retval = NoneVal
    /\ fresult = NoneVal
    /\ trace = <<>>

\* The scheduler variables, idle (scrape_all_platforms not called), for an
\* engine without configured platforms (line 104 with config = {})
SchedIdle ==
    /\ platforms_config = <<>>
    /\ max_workers = 5
    /\ scraping_tasks = <<>>
    /\ spc = "idle"
    /\ futures = <<>>
    /\ work_queue = <<>>
    /\ num_threads = 0
    /\ idle_semaphore = 0
    /\ tstate = <<>>
    /\ tresult = <<>>
    /\ submit_pos = 1
    /\ collect_pos = 1
    /\ all_data = <<>>
    /\ origin = <<>>
    /\ done_order = <<>>

\* The extraction variables, idle (no scrape_* method called)
NoTask == [platform |-> NoneVal, param |-> NoneVal]

\* html_content as a scrape_* method sees it: None, or a body with the
\* elements its primary and its fallback container selector match, in
\* document order; empty marks the body that is the empty string
NoDocument == [none |-> TRUE, empty |-> FALSE, primary |-> <<>>, fallback |-> <<>>]

ExtractIdle ==
    /\ scrape_task = NoTask
    /\ scrape_html = NoDocument
    /\ scrape_matched = <<>>
    /\ scrape_applied = <<>>
    /\ scrape_pc = "idle"
    /\ scrape_pos = 1
    /\ scrape_data = <<>>

\* The retry settings at their defaults (src/scraper_engine.py:97-99)
RetryDefault ==
    /\ max_retries = 3
    /\ delay = 2

\* ------------------------------------------- get_proxy, concurrent callers
\* scrape_all_platforms runs the scrape_* methods on pool threads (lines
\* 388-403) and every fetch attempt calls get_proxy (lines 133, 150), so
\* get_proxy runs on several threads at once.  A thread switch can fall
\* between any two reads or writes of self.current_index.

Callers == 1..MaxCallers

\* the local variable `proxy` before line 73 or 76 assigns it
Unassigned == [url |-> NoneVal]

CallersIdle ==
    [c \in Callers |-> [pc |-> "idle", proxy |-> Unassigned, tmp |-> 0, calls |-> 0]]

InitProxy ==
    /\ \E cfg \in ProxyConfigs : ProxyInit(cfg)
    /\ callers = CallersIdle
    /\ call_log = <<>>
    /\ overlap = FALSE
    /\ RetryDefault
    /\ FetchIdle
    /\ SchedIdle
    /\ ExtractIdle

\* lines 67-72: enter get_proxy and take the branch
Enter(c) ==
    /\ callers[c].pc = "idle"
    /\ Len(call_log) + Cardinality({d \in Callers : callers[d].pc # "idle"}) < MaxCalls
    /\ callers' = [callers EXCEPT ![c].pc = Branch]
    /\ overlap' = (overlap \/ \E d \in Callers \ {c} : callers[d].pc # "idle")
    /\ UNCHANGED <<schedVars, proxyVars, call_log, retryVars, extractVars, fetchVars>>

\* line 73: proxy = self.proxies[self.current_index]
ReadProxy(c) ==
    /\ callers[c].pc = "l73"
    /\ callers' = [callers EXCEPT ![c].pc = "l74_load",
                                  ![c].proxy = PickProxy(current_index)]
    /\ UNCHANGED <<schedVars, proxyVars, call_log, overlap, retryVars, extractVars, fetchVars>>

\* line 74, right-hand side: load self.current_index
LoadIndex(c) ==
    /\ callers[c].pc = "l74_load"
    /\ callers' = [callers EXCEPT ![c].pc = "l74_store", ![c].tmp = current_index]
    /\ UNCHANGED <<schedVars, proxyVars, call_log, overlap, retryVars, extractVars, fetchVars>>

\* line 74, assignment: store (loaded + 1) % len(self.proxies)
StoreIndex(c) ==
    /\ callers[c].pc = "l74_store"
    /\ current_index' = AdvanceCursor(callers[c].tmp)
    /\ callers' = [callers EXCEPT ![c].pc = "l78"]
    /\ UNCHANGED <<schedVars, enabled, rotation, proxies, call_log, overlap, retryVars, extractVars, fetchVars>>

\* line 76: proxy = self.proxies[0]
Sticky(c) ==
    /\ callers[c].pc = "l76"
    /\ callers' = [callers EXCEPT ![c].pc = "l78", ![c].proxy = PickProxy(0)]
    /\ UNCHANGED <<schedVars, proxyVars, call_log, overlap, retryVars, extractVars, fetchVars>>

\* line 70: return None; line 78: return proxy.get('url')
Return(c) ==
    /\ callers[c].pc \in {"l70", "l78"}
    /\ call_log' = Append(call_log,
                          [caller |-> c,
                           ret |-> IF callers[c].pc = "l70" THEN NoneVal
                                   ELSE ProxyUrl(callers[c].proxy)])
    /\ callers' = [callers EXCEPT ![c].pc = "idle", ![c].proxy = Unassigned,
                                  ![c].tmp = 0, ![c].calls = @ + 1]
    /\ UNCHANGED <<schedVars, proxyVars, overlap, retryVars, extractVars, fetchVars>>

NextProxy ==
    \/ \E c \in Callers : Enter(c)
    \/ \E c \in Callers : ReadProxy(c)
    \/ \E c \in Callers : LoadIndex(c)
    \/ \E c \in Callers : StoreIndex(c)
    \/ \E c \in Callers : Sticky(c)
    \/ \E c \in Callers : Return(c)

SpecProxy == InitProxy /\ [][NextProxy]_vars

\* every worker is outside get_proxy
Quiescent == \A c \in Callers : callers[c].pc = "idle"

\* the endpoint that the x-th of a run of sequential calls returns
RoundRobin(x) == ProxyUrl(Providers(Len(proxies))[((x - 1) % Len(proxies)) + 1])

\* ------------------------------------------------ _make_request_with_retry
\* A document is a sequence of words; NoHtml is Python's None where a
\* document is expected and Html(text) a document.
NoHtml == [none |-> TRUE, text |-> <<>>]
Html(text) == [none |-> FALSE, text |-> text]

\* str.lower() on one word
Lower(w) ==
    CASE w = "CAPTCHA" -> "captcha"
      [] w = "Please" -> "please"
      [] w = "Complete" -> "complete"
      [] w = "Items" -> "items"
      [] OTHER -> w

\* lines 108-111
captcha_indicators ==
    {"captcha", "robot", "human verification", "security check", "prove you're human"}

\* lines 106-117: an indicator occurs in the lower-cased document
_check_for_captcha(html_content) ==
    \E x \in DOMAIN html_content : Lower(html_content[x]) \in captcha_indicators

\* the documents a server or a browser session can hand back
CleanPage == <<"Items", "list">>
ChallengePage == <<"Please", "Complete", "CAPTCHA">>
PageSources == {CleanPage, ChallengePage}

Urls == {"url1", "url2"}

Top == frames[Len(frames)]

\* one entry of the trace, made by the innermost frame
Event(ev, t) ==
    [ev |-> ev, browser |-> Top.use_browser, url |-> Top.url,
     k |-> Top.attempt + 1, t |-> t,
     proxy |-> IF ev = "attempt" THEN GetProxyResult ELSE NoneVal]

\* a plausible slip: the zero-based loop index is used as it is
WaitTimeZeroBased(attempt) == delay * attempt

\* line 166: wait_time = self.delay * (attempt + 1)
wait_time(attempt) == delay * (attempt + 1)

\* a plausible slip: the re-entered call stays in direct mode
EscalationFrameDirect(url) == [use_browser |-> FALSE, attempt |-> 0, url |-> url]

\* a plausible slip: the re-entered call goes on with the attempts left
EscalationFrameInherits(url) == [use_browser |-> TRUE, attempt |-> Top.attempt, url |-> url]

\* line 159: the frame of self._make_request_with_retry(url, use_browser=True)
EscalationFrame(url) == [use_browser |-> TRUE, attempt |-> 0, url |-> url]

\* a plausible slip: the loop goes on after an attempt that got its content
AfterSuccessContinue == "for"

\* lines 146 and 161: return content, out of the loop
AfterSuccess == "return"

\* line 126 / line 144: the content a browser attempt returns
BrowserContent(before, after, challenged) == IF challenged THEN after ELSE before

InitFetch ==
    /\ \E cfg \in ProxyConfigs : ProxyInit(cfg)
    /\ callers = CallersIdle
    /\ call_log = <<>>
    /\ overlap = FALSE
    /\ max_retries \in 0..MaxRetries
    /\ delay \in 1..MaxDelay
    /\ FetchIdle
    /\ SchedIdle
    /\ ExtractIdle

\* line 128: _make_request_with_retry(url, use_browser) is called
Call(u, b) ==
    /\ fpc = "idle"
    /\ frames' = <<[use_browser |-> b, attempt |-> 0, url |-> u]>>
    /\ fpc' = "for"
    /\ UNCHANGED <<schedVars, proxyVars, callVars, retryVars, extractVars, page_source, retval, fresult, trace>>

\* line 130 with range(self.max_retries) exhausted before any attempt: the
\* function falls off its end and returns None
LoopExit ==
    /\ fpc = "for"
    /\ Top.attempt >= max_retries
    /\ retval' = NoHtml
    /\ fpc' = "return"
    /\ UNCHANGED <<schedVars, proxyVars, callVars, retryVars, extractVars, frames, page_source, fresult, trace>>

\* lines 133-138 raise: the browser session cannot be opened or navigated
BrowserFails ==
    /\ fpc = "for"
    /\ Top.attempt < max_retries
    /\ Top.use_browser
    /\ current_index' = GetProxyCursor
    /\ trace' = trace \o <<Event("attempt", 0), Event("fail", 0)>>
    /\ fpc' = "except"
    /\ UNCHANGED <<schedVars, enabled, rotation, proxies, callVars, retryVars, extractVars, frames,
                   page_source, retval, fresult>>

\* lines 133-146: the session renders document p; a challenge starts the
\* hand-off of _handle_captcha (lines 121-124), anything else is returned
BrowserLoads(p) ==
    /\ fpc = "for"
    /\ Top.attempt < max_retries
    /\ Top.use_browser
    /\ current_index' = GetProxyCursor
    /\ page_source' = Html(p)
    /\ IF _check_for_captcha(p)
       THEN /\ trace' = trace \o <<Event("attempt", 0), Event("handoff", 0)>>
            /\ fpc' = "input"
            /\ UNCHANGED retval
       ELSE /\ trace' = Append(trace, Event("attempt", 0))
            /\ retval' = BrowserContent(Html(p), Html(p), FALSE)
            /\ fpc' = AfterSuccess
    /\ UNCHANGED <<schedVars, enabled, rotation, proxies, callVars, retryVars, extractVars, frames, fresult>>

\* lines 124-126 and 146: the operator presses Enter; the session's document,
\* whatever it is by then, is read again and returned
OperatorResolves(p) ==
    /\ fpc = "input"
    /\ page_source' = Html(p)
    /\ retval' = BrowserContent(page_source, Html(p), TRUE)
    /\ trace' = Append(trace, Event("resolved", 0))
    /\ fpc' = AfterSuccess
    /\ UNCHANGED <<schedVars, proxyVars, callVars, retryVars, extractVars, frames, fresult>>

\* line 124 raises: input() meets end of file on standard input
InputEOF ==
    /\ fpc = "input"
    /\ trace' = Append(trace, Event("fail", 0))
    /\ fpc' = "except"
    /\ UNCHANGED <<schedVars, proxyVars, callVars, retryVars, extractVars, frames, page_source, retval, fresult>>

\* lines 149-154 raise: connection error, timeout or non-2xx status
DirectFails ==
    /\ fpc = "for"
    /\ Top.attempt < max_retries
    /\ ~Top.use_browser
    /\ current_index' = GetProxyCursor
    /\ trace' = trace \o <<Event("attempt", 0), Event("fail", 0)>>
    /\ fpc' = "except"
    /\ UNCHANGED <<schedVars, enabled, rotation, proxies, callVars, retryVars, extractVars, frames,
                   page_source, retval, fresult>>

\* lines 149-161: the server answers 2xx with document p; a challenge makes
\* the call re-enter itself in browser mode, anything else is returned
DirectResponds(p) ==
    /\ fpc = "for"
    /\ Top.attempt < max_retries
    /\ ~Top.use_browser
    /\ current_index' = GetProxyCursor
    /\ IF _check_for_captcha(p)
       THEN /\ trace' = trace \o <<Event("attempt", 0), Event("escalate", 0)>>
            /\ frames' = Append(frames, EscalationFrame(Top.url))
            /\ fpc' = "for"
            /\ UNCHANGED retval
       ELSE /\ trace' = Append(trace, Event("attempt", 0))
            /\ retval' = Html(p)
            /\ fpc' = AfterSuccess
            /\ UNCHANGED frames
    /\ UNCHANGED <<schedVars, enabled, rotation, proxies, callVars, retryVars, extractVars, page_source, fresult>>

\* lines 163-171: the handler of a failed attempt: sleep and go round the
\* loop again, or give up with None after the last attempt
ExceptHandler ==
    /\ fpc = "except"
    /\ IF Top.attempt < max_retries - 1
       THEN /\ trace' = Append(trace, Event("wait", wait_time(Top.attempt)))
            /\ frames' = [frames EXCEPT ![Len(frames)].attempt = @ + 1]
            /\ fpc' = "for"
            /\ UNCHANGED retval
       ELSE /\ retval' = NoHtml
            /\ fpc' = "return"
            /\ UNCHANGED <<frames, trace>>
    /\ UNCHANGED <<schedVars, proxyVars, callVars, retryVars, extractVars, page_source, fresult>>

\* a frame returns: the outer frame of an escalation (line 159) returns the
\* inner frame's value as its own
ReturnFrame ==
    /\ fpc = "return"
    /\ frames' = SubSeq(frames, 1, Len(frames) - 1)
    /\ IF Len(frames) = 1
       THEN /\ fresult' = retval
            /\ fpc' = "done"
       ELSE /\ fpc' = "return"
            /\ UNCHANGED fresult
    /\ UNCHANGED <<schedVars, proxyVars, callVars, retryVars, extractVars, page_source, retval, trace>>

NextFetch ==
    \/ \E u \in Urls, b \in BOOLEAN : Call(u, b)
    \/ LoopExit
    \/ BrowserFails
    \/ \E p \in PageSources : BrowserLoads(p)
    \/ \E p \in PageSources : OperatorResolves(p)
    \/ InputEOF
    \/ DirectFails
    \/ \E p \in PageSources : DirectResponds(p)
    \/ ExceptHandler
    \/ ReturnFrame

SpecFetch == InitFetch /\ [][NextFetch]_vars

\* ---------------------------------------------------- scrape_all_platforms

\* dict.get(key, default)
Get(d, key, default) == IF key \in DOMAIN d THEN d[key] ELSE default

\* the platform dicts a configuration file can list: with and without the
\* optional keys, enabled and disabled, with an empty parameter list, and one
\* platform the engine does not know
PlatformChoices ==
    { [name |-> "tiktok", tags |-> <<"tag1", "tag2">>],
      [name |-> "tiktok", enabled |-> TRUE, tags |-> <<>>],
      [name |-> "amazon", enabled |-> TRUE],
      [name |-> "reddit", enabled |-> FALSE, subreddits |-> <<"sub1">>],
      [name |-> "reddit", enabled |-> TRUE, subreddits |-> <<"sub1", "sub2">>],
      [name |-> "youtube", enabled |-> TRUE, search_queries |-> <<"query one">>],
      [name |-> "pinterest", enabled |-> TRUE, tags |-> <<"tag1">>] }

\* config['platforms']: no platform, one platform or two platforms
PlatformConfigs ==
    {<<>>} \cup {<<p>> : p \in PlatformChoices}
           \cup {<<p, q>> : p \in PlatformChoices, q \in PlatformChoices}

\* a plausible slip: the enabled flag is not looked at
EnabledPlatformsAll(config) == config

\* line 359
enabled_platforms(config) == SelectSeq(config, LAMBDA p : Get(p, "enabled", TRUE))

\* lines 365-385: the tasks of one platform dict
PlatformTasks(platform) ==
    LET platform_name == Get(platform, "name", NoneVal)
        params ==
            CASE platform_name = "tiktok" ->
                     Get(platform, "tags", <<"affiliatemarketing">>)
              [] platform_name = "amazon" ->
                     Get(platform, "categories", <<"electronics">>)
              [] platform_name = "reddit" ->
                     Get(platform, "subreddits", <<"affiliatemarketing">>)
              [] platform_name = "youtube" ->
                     Get(platform, "search_queries", <<"affiliate marketing">>)
              [] OTHER -> <<>>
    IN  [x \in 1..Len(params) |-> [platform |-> platform_name, param |-> params[x]]]

\* lines 362-385: the tasks of the enabled platforms, in order
RECURSIVE ExpandTasks(_)
ExpandTasks(platforms) ==
    IF platforms = <<>> THEN <<>>
    ELSE PlatformTasks(Head(platforms)) \o ExpandTasks(Tail(platforms))

\* lines 392-401: the method a task is submitted to, "continue" for none
\* a plausible slip: every task runs the first platform's method
DispatchFirst(platform) == "scrape_tiktok_hashtags"

\* lines 391-403
Dispatch(platform) ==
    CASE platform = "tiktok" -> "scrape_tiktok_hashtags"
      [] platform = "amazon" -> "scrape_amazon_bestsellers"
      [] platform = "reddit" -> "scrape_reddit_posts"
      [] platform = "youtube" -> "scrape_youtube_videos"
      [] OTHER -> "continue"

\* a plausible slip: one thread per task, whatever max_workers says
PoolSizePerTask == Len(scraping_tasks)

\* line 388: max_workers=min(max_workers, len(scraping_tasks))
PoolSize == Min(max_workers, Len(scraping_tasks))

\* a plausible slip: the result replaces the aggregate
ExtendReplaces(data, result) == result

\* a plausible slip: the result is put in front of the aggregate
ExtendInFront(data, result) == result \o data

\* line 412: all_data.extend(result)
Extend(data, result) == data \o result

\* a plausible slip: no handler around future.result()
OnTaskErrorPropagates == "raise"

\* lines 410-414: an exception of future.result() is caught and logged, and
\* the loop goes on
OnTaskError == "continue"

\* the records a scrape_* method returns when it extracts n items (lines
\* 204-210, 248-255, 293-300, 341-350): each carries the task's platform
\* and parameter
Records(task, n) ==
    [k \in 1..n |-> [platform |-> task.platform, param |-> task.param, item |-> k]]

Tasks == 1..Len(scraping_tasks)

Running == {t \in Tasks : tstate[t] = "running"}

InitSched ==
    /\ ProxyInit([enabled |-> FALSE, rotation |-> FALSE, n |-> 0])
    /\ callers = CallersIdle
    /\ call_log = <<>>
    /\ overlap = FALSE
    /\ RetryDefault
    /\ FetchIdle
    /\ platforms_config \in PlatformConfigs
    /\ max_workers = 5
    /\ scraping_tasks = <<>>
    /\ spc = "idle"
    /\ futures = <<>>
    /\ work_queue = <<>>
    /\ num_threads = 0
    /\ idle_semaphore = 0
    /\ tstate = <<>>
    /\ tresult = <<>>
    /\ submit_pos = 1
    /\ collect_pos = 1
    /\ all_data = <<>>
    /\ origin = <<>>
    /\ done_order = <<>>
    /\ ExtractIdle

\* lines 356-385: scrape_all_platforms(max_workers=w) is called and builds
\* its task list
StartRun(w) ==
    /\ spc = "idle"
    /\ max_workers' = w
    /\ scraping_tasks' = ExpandTasks(enabled_platforms(platforms_config))
    /\ tstate' = [t \in 1..Len(scraping_tasks') |-> "new"]
    /\ tresult' = [t \in 1..Len(scraping_tasks') |-> [kind |-> "none", data |-> <<>>]]
    /\ spc' = "pool"
    /\ UNCHANGED <<proxyVars, callVars, retryVars, extractVars, fetchVars, platforms_config,
                   futures, work_queue, num_threads, idle_semaphore, submit_pos, collect_pos,
                   all_data, origin, done_order>>

\* line 388: ThreadPoolExecutor(max_workers=...) raises ValueError unless
\* its max_workers is greater than 0; nothing in scrape_all_platforms
\* catches it
CreatePool ==
    /\ spc = "pool"
    /\ spc' = IF PoolSize <= 0 THEN "raised" ELSE "with"
    /\ UNCHANGED <<proxyVars, callVars, retryVars, extractVars, fetchVars, platforms_config,
                   max_workers, scraping_tasks, futures, work_queue, num_threads,
                   idle_semaphore, tstate, tresult, submit_pos, collect_pos, all_data, origin,
                   done_order>>

\* lines 391-406: one round of the submission loop: executor.submit queues
\* the work item and starts a thread unless a worker is idle or the pool is
\* at its size; a task of no known platform is passed over (line 401)
Submit ==
    /\ spc = "with"
    /\ submit_pos <= Len(scraping_tasks)
    /\ IF Dispatch(scraping_tasks[submit_pos].platform) = "continue"
       THEN UNCHANGED <<futures, work_queue, tstate, idle_semaphore, num_threads>>
       ELSE /\ futures' = Append(futures, submit_pos)
            /\ work_queue' = Append(work_queue, submit_pos)
            /\ tstate' = [tstate EXCEPT ![submit_pos] = "queued"]
            /\ IF idle_semaphore > 0
               THEN /\ idle_semaphore' = idle_semaphore - 1
                    /\ UNCHANGED num_threads
               ELSE /\ num_threads' = IF num_threads < PoolSize
                                      THEN num_threads + 1 ELSE num_threads
                    /\ UNCHANGED idle_semaphore
    /\ submit_pos' = submit_pos + 1
    /\ UNCHANGED <<proxyVars, callVars, retryVars, extractVars, fetchVars, platforms_config,
                   max_workers, scraping_tasks, spc, tresult, collect_pos, all_data,
                   origin, done_order>>

\* a worker thread that has no work item takes the oldest one of the queue
\* and starts the task's scrape_* method
WorkerTakes ==
    /\ work_queue # <<>>
    /\ Cardinality(Running) < num_threads
    /\ tstate' = [tstate EXCEPT ![Head(work_queue)] = "running"]
    /\ work_queue' = Tail(work_queue)
    /\ UNCHANGED <<proxyVars, callVars, retryVars, extractVars, fetchVars, platforms_config,
                   max_workers, scraping_tasks, spc, futures, num_threads,
                   idle_semaphore, tresult, submit_pos, collect_pos, all_data,
                   origin, done_order>>

\* the task's method ends, the future is done and the worker goes idle
TaskEnds(t, kind, data) ==
    /\ tstate[t] = "running"
    /\ tstate' = [tstate EXCEPT ![t] = "done"]
    /\ tresult' = [tresult EXCEPT ![t] = [kind |-> kind, data |-> data]]
    /\ idle_semaphore' = idle_semaphore + 1
    /\ done_order' = Append(done_order, t)
    /\ UNCHANGED <<proxyVars, callVars, retryVars, extractVars, fetchVars, platforms_config,
                   max_workers, scraping_tasks, spc, futures, work_queue,
                   num_threads, submit_pos, collect_pos, all_data, origin>>

\* lines 181-183 (224-226, 269-271, 312-314): the fetch gave no document
\* and the method returns []
TaskFetchFails(t) == TaskEnds(t, "fetch_failed", <<>>)

\* lines 185-214 (228-259, 273-304, 316-354): the method returns the n
\* records it extracted
TaskExtracts(t, n) == TaskEnds(t, "extracted", Records(scraping_tasks[t], n))

\* the method raises outside its per-item handler (for one, line 308 on a
\* query that is no string); the future holds the exception
TaskRaises(t) == TaskEnds(t, "raised", <<>>)

\* a plausible slip: the result is taken without waiting for the task
ResultReadyAtOnce(t) == TRUE

\* line 411: future.result() returns (or raises) once the task has ended
ResultReady(t) == tstate[t] = "done"

\* lines 409-414: one round of the collection loop: future.result() blocks
\* until the future is done; the loop starts when the submission loop is over
Collect ==
    /\ spc = "with"
    /\ submit_pos > Len(scraping_tasks)
    /\ collect_pos <= Len(futures)
    /\ ResultReady(futures[collect_pos])
    /\ LET t == futures[collect_pos]
       IN  IF tresult[t].kind = "raised"
           THEN /\ spc' = IF OnTaskError = "continue" THEN spc ELSE "raised"
                /\ UNCHANGED <<all_data, origin>>
           ELSE /\ all_data' = Extend(all_data, tresult[t].data)
                /\ origin' = origin \o [k \in 1..Len(tresult[t].data) |-> t]
                /\ UNCHANGED spc
    /\ collect_pos' = collect_pos + 1
    /\ UNCHANGED <<proxyVars, callVars, retryVars, extractVars, fetchVars, platforms_config,
                   max_workers, scraping_tasks, futures, work_queue, num_threads,
                   idle_semaphore, tstate, tresult, submit_pos, done_order>>

\* lines 388 (end of the with block), 416-417: the pool is shut down, which
\* waits for its threads, and all_data is returned
ReturnData ==
    /\ spc = "with"
    /\ submit_pos > Len(scraping_tasks)
    /\ collect_pos > Len(futures)
    /\ work_queue = <<>> /\ Running = {}
    /\ spc' = "returned"
    /\ UNCHANGED <<proxyVars, callVars, retryVars, extractVars, fetchVars, platforms_config,
                   max_workers, scraping_tasks, futures, work_queue, num_threads,
                   idle_semaphore, tstate, tresult, submit_pos, collect_pos, all_data, origin,
                   done_order>>

NextSched ==
    \/ \E w \in 0..MaxWorkers : StartRun(w)
    \/ CreatePool
    \/ Submit
    \/ WorkerTakes
    \/ \E t \in Tasks : TaskFetchFails(t)
    \/ \E t \in Tasks, n \in 0..MaxItems : TaskExtracts(t, n)
    \/ \E t \in Tasks : TaskRaises(t)
    \/ Collect
    \/ ReturnData

SpecSched == InitSched /\ [][NextSched]_vars

\* ------------------------------------------------------- scrape_* methods
\* Lines 173-354.  The four methods share one shape: fetch, return [] on a
\* falsy body, select the containers (primary selector, then the fallback),
\* parse each container inside its own try block, return data.

\* line 325: videos[:10]
VideoLimit == 10

\* the most elements the primary container selector matches
MaxContainers == VideoLimit + MaxExtra

\* lines 29-57: PLATFORM_SELECTORS, the per-field selectors of a platform
FieldSelectors(platform) ==
    CASE platform = "tiktok" -> {".video-count"}
      [] platform = "amazon" -> {".p13n-sc-truncated", ".p13n-sc-price", ".a-icon-alt"}
      [] platform = "reddit" -> {"[data-testid=\"post-title\"]", "[data-testid=\"upvote-count\"]", "[data-testid=\"comment-count\"]"}
      [] platform = "youtube" -> {"#video-title", "#metadata-line span:first-child", "#metadata-line span:last-child"}
      [] OTHER -> {}

\* What a container element is, as far as parsing can tell:
\*   found    - the field selectors that match an element for it
\*   names    - the tag names of the elements that follow it in the document
\*   has_href - whether the element matched by the title selector has an
\*              href attribute, and href, that attribute split at "="
\*   raises   - whether a step of the try body raises on it
\*   text     - its own text, stripped, as a sequence of pieces
Shapes(platform) ==
    LET full == [found |-> FieldSelectors(platform),
                 names |-> IF platform = "tiktok" THEN {"strong"} ELSE {},
                 has_href |-> platform = "youtube", raises |-> FALSE]
    IN  [complete |-> full,
         bare |-> [full EXCEPT !.found = {}, !.names = {}, !.has_href = FALSE],
         malformed |-> [full EXCEPT !.raises = TRUE],
         no_href |-> [full EXCEPT !.has_href = FALSE]]
        @@ [f \in FieldSelectors(platform) |-> [full EXCEPT !.found = @ \ {f}]]

\* the element number idx that selector sel matches, of shape sh
Element(sel, idx, sh) ==
    [sel |-> sel, idx |-> idx, found |-> sh.found, names |-> sh.names,
     has_href |-> sh.has_href, raises |-> sh.raises,
     href |-> IF sh.has_href THEN <<"/watch?v", "vid" \o ToString(idx)>> ELSE <<>>,
     text |-> <<"#", "tag" \o ToString(idx)>>]

\* a body in which the primary selector matches np elements and the
\* fallback selector nf, all complete but the one at place odd (counted
\* through the primary matches first), which has shape kind
Document(platform, np, nf, odd, kind) ==
    LET sh(x) == IF x = odd THEN Shapes(platform)[kind]
                 ELSE Shapes(platform)["complete"]
    IN  [none |-> FALSE, empty |-> FALSE,
         primary |-> [x \in 1..np |-> Element("primary", x, sh(x))],
         fallback |-> [x \in 1..nf |-> Element("fallback", x, sh(np + x))]]

\* the bodies a fetch for a platform can return
Documents(platform) ==
    {NoDocument, [NoDocument EXCEPT !.none = FALSE, !.empty = TRUE]}
    \cup {Document(platform, np, nf, odd, kind) :
              np \in 0..MaxContainers, nf \in 0..MaxFallback,
              odd \in 0..(MaxContainers + MaxFallback),
              kind \in DOMAIN Shapes(platform)}

\* the tasks scrape_all_platforms can hand to a method (lines 391-403)
ExtractTasks ==
    {[platform |-> "tiktok", param |-> "tag1"],
     [platform |-> "amazon", param |-> "books"],
     [platform |-> "reddit", param |-> "sub1"],
     [platform |-> "youtube", param |-> "query one"]}

\* lines 182, 225, 270, 313: not html_content
Falsy(html) == html.none \/ html.empty

\* a plausible slip: the fallback selector is never tried
NeedsFallbackNever(matches) == FALSE

\* lines 189, 232, 277, 320: if not hashtags / products / posts / videos
NeedsFallback(matches) == matches = <<>>

\* a plausible slip: every container is parsed
LimitNone(method, matches) == matches

\* lines 194, 237, 282: for x in matches; line 325: for video in videos[:10]
Limit(method, matches) ==
    IF method = "scrape_youtube_videos"
    THEN SubSeq(matches, 1, Min(VideoLimit, Len(matches)))
    ELSE matches

\* the stripped text of the element a field selector matches in a container
FieldText(el, selector) == selector \o "@" \o el.sel \o ToString(el.idx)

\* a plausible slip: a field that is not found is left empty
TextOrEmpty(el, selector, default) ==
    IF selector \in el.found THEN FieldText(el, selector) ELSE ""

\* lines 240-246, 285-291, 328-334: x = container.select_one(selector);
\* x.text.strip() if x else default
TextOr(el, selector, default) ==
    IF selector \in el.found THEN FieldText(el, selector) ELSE default

\* lines 201-202: tag.find_next(name) looks for a following element whose
\* TAG NAME is name; view_element.text.strip() if view_element else default
FindNextOr(el, name, default) ==
    IF name \in el.names THEN FieldText(el, name) ELSE default

\* line 198: tag_name.lstrip('#') drops every leading piece equal to ch
RECURSIVE LStrip(_, _)
LStrip(pieces, ch) ==
    IF pieces # <<>> /\ Head(pieces) = ch THEN LStrip(Tail(pieces), ch) ELSE pieces

\* the string the pieces spell
RECURSIVE Concat(_)
Concat(pieces) ==
    IF pieces = <<>> THEN "" ELSE Head(pieces) \o Concat(Tail(pieces))

\* lines 337-339: the token after the last "=" of the title's href, if the
\* title element is there and has an href
VideoId(el) ==
    IF "#video-title" \in el.found /\ el.has_href
    THEN el.href[Len(el.href)]
    ELSE NoneVal

\* lines 204-210, 248-255, 293-300, 341-350: the record a method appends
\* for a container (base_url at its default, lines 176, 219, 264)
Record(method, param, el) ==
    CASE method = "scrape_tiktok_hashtags" ->
            [platform |-> "tiktok", type |-> "hashtag",
             name |-> Concat(LStrip(el.text, "#")),
             views |-> FindNextOr(el, ".video-count", "N/A"),
             url |-> "https://www.tiktok.com/tag/" \o Concat(LStrip(el.text, "#"))]
      [] method = "scrape_amazon_bestsellers" ->
            [platform |-> "amazon", type |-> "product", category |-> param,
             name |-> TextOr(el, ".p13n-sc-truncated", "N/A"),
             price |-> TextOr(el, ".p13n-sc-price", "N/A"),
             rating |-> TextOr(el, ".a-icon-alt", "N/A")]
      [] method = "scrape_reddit_posts" ->
            [platform |-> "reddit", type |-> "post", subreddit |-> param,
             title |-> TextOr(el, "[data-testid=\"post-title\"]", "N/A"),
             upvotes |-> TextOr(el, "[data-testid=\"upvote-count\"]", "0"),
             comments |-> TextOr(el, "[data-testid=\"comment-count\"]", "0")]
      [] method = "scrape_youtube_videos" ->
            [platform |-> "youtube", type |-> "video", query |-> param,
             title |-> TextOr(el, "#video-title", "N/A"),
             views |-> TextOr(el, "#metadata-line span:first-child", "N/A"),
             date |-> TextOr(el, "#metadata-line span:last-child", "N/A"),
             video_id |-> VideoId(el),
             url |-> IF VideoId(el) \notin {NoneVal, ""}
                     THEN "https://www.youtube.com/watch?v=" \o VideoId(el)
                     ELSE "N/A"]

\* a plausible slip: an item that fails to parse ends the loop
AfterItemErrorBreak(pos, n) == n + 1

\* lines 211-212, 256-257, 301-302, 351-352: the handler logs and the loop
\* goes on with the next container
AfterItemError(pos, n) == pos + 1

\* the method a task runs and the containers its loop goes through
ScrapeMethod == Dispatch(scrape_task.platform)
ScrapeItems == Limit(ScrapeMethod, scrape_matched)

InitExtract ==
    /\ ProxyInit([enabled |-> FALSE, rotation |-> FALSE, n |-> 0])
    /\ callers = CallersIdle
    /\ call_log = <<>>
    /\ overlap = FALSE
    /\ RetryDefault
    /\ FetchIdle
    /\ SchedIdle
    /\ ExtractIdle

\* lines 391-403 and 181, 224, 269, 312: the method of the task's platform
\* is called and its fetch returns html
CallScrape(task, html) ==
    /\ scrape_pc = "idle"
    /\ Dispatch(task.platform) # "continue"
    /\ scrape_task' = task
    /\ scrape_html' = html
    /\ scrape_pc' = "fetched"
    /\ UNCHANGED <<proxyVars, callVars, retryVars, fetchVars, schedVars,
                   scrape_matched, scrape_applied, scrape_pos, scrape_data>>

\* lines 182-183, 225-226, 270-271, 313-314: return []
ReturnEmpty ==
    /\ scrape_pc = "fetched"
    /\ Falsy(scrape_html)
    /\ scrape_pc' = "returned"
    /\ UNCHANGED <<proxyVars, callVars, retryVars, fetchVars, schedVars,
                   scrape_task, scrape_html, scrape_matched, scrape_applied,
                   scrape_pos, scrape_data>>

\* lines 185-189, 228-232, 273-277, 316-320: parse the body and apply the
\* primary container selector
SelectPrimary ==
    /\ scrape_pc = "fetched"
    /\ ~Falsy(scrape_html)
    /\ scrape_matched' = scrape_html.primary
    /\ scrape_applied' = Append(scrape_applied, "primary")
    /\ scrape_pc' = IF NeedsFallback(scrape_html.primary) THEN "fallback" ELSE "loop"
    /\ UNCHANGED <<proxyVars, callVars, retryVars, fetchVars, schedVars,
                   scrape_task, scrape_html, scrape_pos, scrape_data>>

\* lines 190-191, 233-234, 278-279, 321-322: apply the fallback selector
SelectFallback ==
    /\ scrape_pc = "fallback"
    /\ scrape_matched' = scrape_html.fallback
    /\ scrape_applied' = Append(scrape_applied, "fallback")
    /\ scrape_pc' = "loop"
    /\ UNCHANGED <<proxyVars, callVars, retryVars, fetchVars, schedVars,
                   scrape_task, scrape_html, scrape_pos, scrape_data>>

\* lines 195-210, 238-255, 283-300, 326-350: the try body runs to its end
\* and appends the container's record
ParseItem ==
    /\ scrape_pc = "loop"
    /\ scrape_pos <= Len(ScrapeItems)
    /\ ~ScrapeItems[scrape_pos].raises
    /\ scrape_data' = Append(scrape_data,
                             Record(ScrapeMethod, scrape_task.param,
                                    ScrapeItems[scrape_pos]))
    /\ scrape_pos' = scrape_pos + 1
    /\ UNCHANGED <<proxyVars, callVars, retryVars, fetchVars, schedVars,
                   scrape_task, scrape_html, scrape_matched, scrape_applied,
                   scrape_pc>>

\* lines 211-212, 256-257, 301-302, 351-352: a step of the try body raises
\* before the append; the handler logs a warning
ParseRaises ==
    /\ scrape_pc = "loop"
    /\ scrape_pos <= Len(ScrapeItems)
    /\ ScrapeItems[scrape_pos].raises
    /\ scrape_pos' = AfterItemError(scrape_pos, Len(ScrapeItems))
    /\ UNCHANGED <<proxyVars, callVars, retryVars, fetchVars, schedVars,
                   scrape_task, scrape_html, scrape_matched, scrape_applied,
                   scrape_pc, scrape_data>>

\* lines 214, 259, 304, 354: return data
ReturnRecords ==
    /\ scrape_pc = "loop"
    /\ scrape_pos > Len(ScrapeItems)
    /\ scrape_pc' = "returned"
    /\ UNCHANGED <<proxyVars, callVars, retryVars, fetchVars, schedVars,
                   scrape_task, scrape_html, scrape_matched, scrape_applied,
                   scrape_pos, scrape_data>>

NextExtract ==
    \/ \E task \in ExtractTasks : \E html \in Documents(task.platform) :
           CallScrape(task, html)
    \/ ReturnEmpty
    \/ SelectPrimary
    \/ SelectFallback
    \/ ParseItem
    \/ ParseRaises
    \/ ReturnRecords

SpecExtract == InitExtract /\ [][NextExtract]_vars

\* ------------------------------------------------------------------ claims

\* the entries of the trace of one kind
Count(ev) == Cardinality({x \in DOMAIN trace : trace[x].ev = ev})

\* the attempts, failures and waits of the trace, in order
Schedule == SelectSeq(trace, LAMBDA e : e.ev \in {"attempt", "fail", "wait"})

\* the fetch call is over and every attempt it made failed
AllAttemptsFailed == fpc = "done" /\ Count("attempt") = Count("fail")

\* a call made escalated from direct mode to browser mode
Escalated == Count("escalate") >= 1

\* the browser-mode attempts of the trace, in order
BrowserAttempts == SelectSeq(trace, LAMBDA e : e.ev = "attempt" /\ e.browser)

C2_NoChallengeReturned ==
    (fpc = "done" /\ ~fresult.none) => ~_check_for_captcha(fresult.text)

\* C3 (as claimed): after a direct fetch escalated on a challenge, exactly
\* one browser-mode attempt is made, whatever the outcome of that attempt.
C3_ExactlyOneBrowserAttempt ==
    (fpc = "done" /\ Escalated) => Len(BrowserAttempts) = 1

\* C3 (amended): a direct fetch whose body is a challenge escalates exactly
\* once: one browser-mode call for the same URL is entered, it is never
\* entered a second time, no direct attempt follows it, and that call makes
\* attempts 1..m in browser mode for some 1 <= m <= max_retries, each but
\* the last one failed.
C3_OneEscalation ==
    /\ Count("escalate") <= 1
    /\ Len(frames) <= 2
    /\ \A x \in DOMAIN trace :
           trace[x].ev = "escalate" =>
               /\ ~trace[x].browser
               /\ \A y \in DOMAIN trace :
                      y > x => trace[y].browser /\ trace[y].url = trace[x].url
    /\ (fpc = "done" /\ Escalated) =>
           /\ Len(BrowserAttempts) \in 1..max_retries
           /\ \A y \in DOMAIN BrowserAttempts : BrowserAttempts[y].k = y
           /\ Cardinality({y \in DOMAIN trace : trace[y].ev = "fail" /\ trace[y].browser})
                  >= Len(BrowserAttempts) - 1

\* C3 witness: an escalated call is over after as many browser-mode
\* attempts as max_retries allows, more than one
C3_Witness ==
    /\ fpc = "done"
    /\ Escalated
    /\ max_retries >= 2
    /\ Len(BrowserAttempts) = max_retries

\* the tasks whose method ended without records: the fetch gave nothing or
\* the method raised
Failed == {t \in Tasks : tstate[t] = "done" /\ tresult[t].kind \in {"fetch_failed", "raised"}}

\* the records of all_data that came from task t, in order
From(t) ==
    LET picked == SelectSeq([x \in DOMAIN all_data |-> <<all_data[x], origin[x]>>],
                            LAMBDA e : e[2] = t)
    IN  [x \in DOMAIN picked |-> picked[x][1]]

\* the records the method of task t handed back
Yield(t) == IF tresult[t].kind = "extracted" THEN tresult[t].data ELSE <<>>

RECURSIVE SumYield(_)
SumYield(ts) ==
    IF ts = {} THEN 0
    ELSE LET t == CHOOSE x \in ts : TRUE IN Len(Yield(t)) + SumYield(ts \ {t})

\* how many times record r stands in all_data, and in the tasks' yields
InBatch(r) == Cardinality({x \in DOMAIN all_data : all_data[x] = r})
InYields(r) ==
    LET places == {<<t, x>> \in Tasks \X (1..MaxItems) :
                       x <= Len(Yield(t)) /\ Yield(t)[x] = r}
    IN  Cardinality(places)

\* C5: with max_workers = w and T tasks, the number of tasks running their
\* scrape_* method at the same time is at most min(w, T) in every state.
C5_ConcurrencyBound ==
    Cardinality(Running) <= Min(max_workers, Len(scraping_tasks))

\* C5 witness: two tasks run at once under max_workers = 2 while a third
\* one waits in the queue
C5_Witness ==
    /\ max_workers = 2
    /\ Len(scraping_tasks) >= 3
    /\ Cardinality(Running) = 2
    /\ work_queue # <<>>

\* C6 (as claimed): for every platform configuration and every max_workers
\* value the run ends by returning a record list; no exception leaves
\* scrape_all_platforms.
C6_NoExceptionEscapes == spc # "raised"

\* C7: a failed task (fetch exhausted, or an exception in the method) does
\* not abort the batch and contributes no record, and every other submitted
\* task has run to completion and has all its records, in their order, in
\* the returned batch.
C7_FailureIsolation ==
    /\ spc = "raised" => futures = <<>>
    /\ spc = "returned" =>
           \A t \in Tasks :
               /\ tstate[t] = "done"
               /\ t \in Failed => From(t) = <<>>
               /\ t \notin Failed => From(t) = tresult[t].data

\* C7 witness: the batch was returned with the record of a task that was
\* submitted after a task that raised and after a task whose fetch failed
C7_Witness ==
    /\ spc = "returned"
    /\ \E t, u, v \in Tasks :
           /\ t < v /\ u < v
           /\ tresult[t].kind = "raised"
           /\ tresult[u].kind = "fetch_failed"
           /\ tresult[v].kind = "extracted"
           /\ Len(From(v)) = 1

\* C8: whatever the order the tasks complete in, the returned list holds
\* exactly the records the tasks extracted, each as often as it was
\* extracted, so its length is the sum of the tasks' record counts.
C8_ExactAggregate ==
    spc = "returned" =>
        /\ Len(all_data) = SumYield(Tasks)
        /\ \A t \in Tasks : \A x \in DOMAIN Yield(t) :
               InBatch(Yield(t)[x]) = InYields(Yield(t)[x])
        /\ \A x \in DOMAIN all_data : InYields(all_data[x]) >= 1

\* C8 witness: a batch of two records was returned whose tasks completed in
\* the opposite of their submission order
C8_Witness ==
    /\ spc = "returned"
    /\ Len(all_data) = 2
    /\ \E t, u \in Tasks :
           /\ t < u
           /\ Len(Yield(t)) = 1 /\ Len(Yield(u)) = 1
           /\ \E x, y \in DOMAIN done_order :
                  x < y /\ done_order[x] = u /\ done_order[y] = t

\* the calls of call_log that returned value u
Returned(u) == {x \in DOMAIN call_log : call_log[x].ret = u}

\* the calls among k sequential ones, from cursor 0, that return value u
Expected(u, k) == {x \in 1..k : RoundRobin(x) = u}

\* every call returned so far got the endpoint its place in a round-robin
\* order gives it, and between calls the cursor stands one past the last
RoundRobinOrder ==
    /\ \A x \in DOMAIN call_log : call_log[x].ret = RoundRobin(x)
    /\ Quiescent => current_index = Len(call_log) % Len(proxies)

\* C4 (as claimed): with rotation on and n >= 1 endpoints, once k
\* concurrent calls of get_proxy are over, whatever their interleaving, the
\* cursor is (0 + k) mod n and the calls returned the multiset of endpoints
\* that k sequential calls return.
C4_AtomicAdvance ==
    (enabled /\ rotation /\ Len(proxies) >= 1 /\ Quiescent) =>
        /\ current_index = Len(call_log) % Len(proxies)
        /\ \A x \in DOMAIN proxies :
               Cardinality(Returned(ProxyUrl(proxies[x])))
                   = Cardinality(Expected(ProxyUrl(proxies[x]), Len(call_log)))

\* C9 (as claimed): with rotation on and n >= 1 endpoints, sequential calls
\* return the endpoints in round-robin order from cursor 0 and each call
\* advances the cursor by one modulo n.
C9_RoundRobinIfRotation ==
    (rotation /\ Len(proxies) >= 1 /\ ~overlap) => RoundRobinOrder

\* C9 (amended): with the proxy policy enabled, rotation on and n >= 1
\* endpoints, sequential calls return the endpoints in round-robin order
\* from cursor 0 (the x-th call returns endpoint (x - 1) mod n) and each
\* call advances the cursor by one modulo n.
C9_RoundRobin ==
    (enabled /\ rotation /\ Len(proxies) >= 1 /\ ~overlap) => RoundRobinOrder

\* C9 witness: four sequential calls over three endpoints, the fourth one
\* back at the first endpoint
C9_Witness ==
    /\ enabled /\ rotation /\ ~overlap /\ Quiescent
    /\ Len(proxies) = 3
    /\ Len(call_log) = 4
    /\ call_log[3].ret = "proxy3"
    /\ call_log[4].ret = "proxy1"
    /\ current_index = 1

\* C10 (as claimed): with rotation off and n >= 1 endpoints, every call
\* returns the first endpoint and the cursor is left as it was.
C10_StickyIfNoRotation ==
    (~rotation /\ Len(proxies) >= 1) =>
        /\ \A x \in DOMAIN call_log : call_log[x].ret = ProxyUrl(proxies[1])
        /\ current_index = 0

\* C10 (amended): with the proxy policy enabled, rotation off and n >= 1
\* endpoints, every call returns the first endpoint; and with rotation off
\* no call, of any worker, moves the cursor from where __init__ put it.
C10_Sticky ==
    /\ (enabled /\ ~rotation /\ Len(proxies) >= 1) =>
           \A x \in DOMAIN call_log : call_log[x].ret = ProxyUrl(proxies[1])
    /\ ~rotation => current_index = 0

\* C10 witness: without rotation, three calls over two endpoints all
\* returned the first endpoint
C10_Witness ==
    /\ enabled /\ ~rotation
    /\ Len(proxies) = 2
    /\ Len(call_log) = 3
    /\ \A x \in DOMAIN call_log : call_log[x].ret = "proxy1"

\* C11 (as claimed): if rotation is off or the endpoint set is empty, every
\* call of get_proxy returns None, whatever the other settings and however
\* many calls came before.
C11_NoneIfNoRotation ==
    (~rotation \/ Len(proxies) = 0) =>
        \A x \in DOMAIN call_log : call_log[x].ret = NoneVal

\* C11 (amended): if the proxy policy is not enabled or the endpoint set is
\* empty, every call of get_proxy returns None and leaves the cursor at 0,
\* whatever the rotation flag and however many calls came before.
C11_NoneIfDisabled ==
    (~enabled \/ Len(proxies) = 0) =>
        /\ \A x \in DOMAIN call_log : call_log[x].ret = NoneVal
        /\ current_index = 0

\* C11 witness: with the policy not enabled, rotation on and two endpoints,
\* three calls all returned None
C11_Witness ==
    /\ ~enabled /\ rotation
    /\ Len(proxies) = 2
    /\ Len(call_log) = 3
    /\ \A x \in DOMAIN call_log : call_log[x].ret = NoneVal

\* the key that holds a platform's parameter list
ParamKey(name) ==
    CASE name = "tiktok" -> "tags"
      [] name = "amazon" -> "categories"
      [] name = "reddit" -> "subreddits"
      [] name = "youtube" -> "search_queries"
      [] OTHER -> NoneVal

\* the parameter list the configuration gives a platform, empty when it
\* gives none
ConfiguredList(p) == Get(p, ParamKey(p.name), <<>>)

\* the same, with the one-entry list the engine falls back on when the
\* configuration gives no list
FallbackList(p) ==
    Get(p, ParamKey(p.name),
        CASE p.name \in {"tiktok", "reddit"} -> <<"affiliatemarketing">>
          [] p.name = "amazon" -> <<"electronics">>
          [] p.name = "youtube" -> <<"affiliate marketing">>
          [] OTHER -> <<>>)

\* the places <<a, b>>: entry b of the list List gives platform a of the
\* configuration, for the platforms that are not disabled
Slots(List(_)) ==
    UNION {{<<a, b>> : b \in 1..Len(List(platforms_config[a]))} :
               a \in {c \in DOMAIN platforms_config :
                          Get(platforms_config[c], "enabled", TRUE)}}

\* the position of place s when the places are put in configuration order
SlotPos(List(_), s) ==
    Cardinality({r \in Slots(List) : r[1] < s[1] \/ (r[1] = s[1] /\ r[2] <= s[2])})

\* scraping_tasks holds one task per place, in configuration order, and
\* nothing else
OneTaskPerSlot(List(_)) ==
    /\ Len(scraping_tasks) = Cardinality(Slots(List))
    /\ \A s \in Slots(List) :
           scraping_tasks[SlotPos(List, s)] =
               [platform |-> platforms_config[s[1]].name,
                param |-> List(platforms_config[s[1]])[s[2]]]

\* C12 (as claimed): the task list holds exactly one (platform, parameter)
\* task per entry of the configured parameter list of each enabled platform,
\* in configuration order, and no task of a disabled platform.
C12_OneTaskPerConfiguredEntry ==
    spc # "idle" => OneTaskPerSlot(ConfiguredList)

\* C12 (amended): the task list holds exactly one (platform, parameter) task
\* per entry of the parameter list of each platform that is not disabled and
\* whose name the engine knows, in configuration order, where a platform
\* without a configured list has the engine's one-entry default list; it
\* holds no task of a disabled platform or of a platform of another name.
C12_OneTaskPerEntry ==
    spc # "idle" =>
        /\ OneTaskPerSlot(FallbackList)
        /\ \A t \in DOMAIN scraping_tasks :
               \E a \in DOMAIN platforms_config :
                   /\ platforms_config[a].name = scraping_tasks[t].platform
                   /\ Get(platforms_config[a], "enabled", TRUE)

\* C12 witness: a disabled platform comes first and a platform with two
\* configured parameters second, and the task list has just the two tasks
C12_Witness ==
    /\ spc # "idle"
    /\ Len(platforms_config) = 2
    /\ ~Get(platforms_config[1], "enabled", TRUE)
    /\ Len(ConfiguredList(platforms_config[2])) = 2
    /\ Len(scraping_tasks) = 2
    /\ scraping_tasks[2].param = ConfiguredList(platforms_config[2])[2]

\* ---- extraction

\* the extraction is past container selection
Selected == scrape_pc \in {"loop", "returned"} /\ ~Falsy(scrape_html)

\* the containers among the first n of items on which parsing does not raise
NotRaising(el) == ~el.raises
Parsable(items, n) == SelectSeq(SubSeq(items, 1, Min(n, Len(items))), NotRaising)

\* the containers a finished or running loop has gone through
Visited == Parsable(ScrapeItems, scrape_pos - 1)

\* the selector-backed fields of each platform's record, with their selectors
SelectorOf(platform) ==
    CASE platform = "tiktok" -> [views |-> ".video-count"]
      [] platform = "amazon" -> [name |-> ".p13n-sc-truncated", price |-> ".p13n-sc-price",
                                 rating |-> ".a-icon-alt"]
      [] platform = "reddit" -> [title |-> "[data-testid=\"post-title\"]", upvotes |-> "[data-testid=\"upvote-count\"]",
                                 comments |-> "[data-testid=\"comment-count\"]"]
      [] platform = "youtube" -> [title |-> "#video-title", views |-> "#metadata-line span:first-child",
                                  date |-> "#metadata-line span:last-child"]

\* the fields declared for each platform's record
FieldSet(platform) ==
    CASE platform = "tiktok" -> {"platform", "type", "name", "views", "url"}
      [] platform = "amazon" -> {"platform", "type", "category", "name", "price", "rating"}
      [] platform = "reddit" -> {"platform", "type", "subreddit", "title", "upvotes", "comments"}
      [] platform = "youtube" -> {"platform", "type", "query", "title", "views", "date",
                                  "video_id", "url"}

\* C13 (as claimed): for a fetched document (read here as one with a
\* non-empty body, the only kind selectors are applied to) the containers used are the
\* primary selector's matches when there are any and the fallback selector's
\* matches exactly when there are none, and zero records are returned only
\* after the fallback has been applied and has matched nothing.
C13_FallbackBeforeZeroRecords ==
    Selected =>
        /\ scrape_html.primary # <<>> =>
               scrape_matched = scrape_html.primary /\ scrape_applied = <<"primary">>
        /\ scrape_html.primary = <<>> =>
               scrape_matched = scrape_html.fallback
        /\ (scrape_pc = "returned" /\ scrape_data = <<>>) =>
               /\ scrape_applied = <<"primary", "fallback">>
               /\ scrape_html.fallback = <<>>

\* C13 (amended): for a fetched document with a non-empty body the containers
\* used are the primary selector's matches when there are any and the
\* fallback selector's matches exactly when there are none, and the
\* extraction has no container to parse only after the fallback has been
\* applied and has matched nothing.
C13_FallbackIffPrimaryEmpty ==
    Selected =>
        /\ scrape_html.primary # <<>> =>
               scrape_matched = scrape_html.primary /\ scrape_applied = <<"primary">>
        /\ scrape_html.primary = <<>> =>
               /\ scrape_matched = scrape_html.fallback
               /\ scrape_applied = <<"primary", "fallback">>
        /\ scrape_matched = <<>> =>
               /\ scrape_applied = <<"primary", "fallback">>
               /\ scrape_html.fallback = <<>>

\* C13 witness: the primary selector matched nothing, the fallback matched
\* two containers and both gave a record
C13_Witness ==
    /\ scrape_pc = "returned"
    /\ scrape_html.primary = <<>>
    /\ Len(scrape_html.fallback) = 2
    /\ scrape_applied = <<"primary", "fallback">>
    /\ Len(scrape_data) = 2

\* every parsable container gone through has its record, and in each record
\* a field whose selector matched nothing holds Default(platform, field)
MissingFieldsHold(Default(_, _)) ==
    LET sel == SelectorOf(scrape_task.platform)
    IN  /\ Len(scrape_data) = Len(Visited)
        /\ \A k \in DOMAIN scrape_data :
               /\ DOMAIN scrape_data[k] = FieldSet(scrape_task.platform)
               /\ \A f \in DOMAIN sel :
                      sel[f] \notin Visited[k].found =>
                          scrape_data[k][f] = Default(scrape_task.platform, f)

NotAvailable(platform, field) == "N/A"

SentinelOf(platform, field) ==
    IF platform = "reddit" /\ field \in {"upvotes", "comments"} THEN "0" ELSE "N/A"

C15_PlatformFieldSet ==
    \A k \in DOMAIN scrape_data :
        /\ scrape_data[k].platform = scrape_task.platform
        /\ DOMAIN scrape_data[k] = FieldSet(scrape_task.platform)

\* C15 witness: a youtube task returned two records
C15_Witness ==
    /\ scrape_pc = "returned"
    /\ scrape_task.platform = "youtube"
    /\ Len(scrape_data) = 2
    /\ "video_id" \in DOMAIN scrape_data[2]

\* C16: a YouTube extraction holds at most 10 records, and returns the
\* records of the first 10 matched containers, in document order.
C16_FirstTenVideos ==
    scrape_task.platform = "youtube" =>
        /\ Len(scrape_data) <= 10
        /\ scrape_pc = "returned" /\ ~Falsy(scrape_html) =>
               LET first == Parsable(scrape_matched, 10)
               IN  scrape_data =
                       [k \in 1..Len(first) |->
                            Record("scrape_youtube_videos", scrape_task.param, first[k])]

\* C16 witness: more than 10 containers matched and 10 records were returned
C16_Witness ==
    /\ scrape_task.platform = "youtube"
    /\ scrape_pc = "returned"
    /\ Len(scrape_matched) > 10
    /\ Len(scrape_data) = 10
    /\ scrape_data[10].title = FieldText(scrape_matched[10], "#video-title")

\* C20: a parsing failure on one matched item skips only that item: every
\* other item gone through, before and after it, has its record, in
\* container order, and the extraction returns with the loop at its end.
C20_SkipOnlyFailingItem ==
    Selected =>
        /\ scrape_data =
               [k \in 1..Len(Visited) |->
                    Record(ScrapeMethod, scrape_task.param, Visited[k])]
        /\ scrape_pos <= Len(ScrapeItems) + 1
        /\ scrape_pc = "returned" => Visited = Parsable(ScrapeItems, Len(ScrapeItems))

\* C20 witness: the second of three items failed to parse and the first and
\* the third gave the two records returned
C20_Witness ==
    /\ scrape_pc = "returned"
    /\ Len(ScrapeItems) = 3
    /\ ScrapeItems[2].raises
    /\ scrape_data = <<Record(ScrapeMethod, scrape_task.param, ScrapeItems[1]),
                       Record(ScrapeMethod, scrape_task.param, ScrapeItems[3])>>

\* ---- first success ends the call

\* the attempt at place x of the trace got content: it neither failed nor
\* met a challenge that escalated, and a hand-off it started was resolved
Succeeded(x) ==
    /\ trace[x].ev = "attempt"
    /\ \/ x = Len(trace)
       \/ trace[x + 1].ev \notin {"fail", "escalate", "handoff"}
       \/ /\ trace[x + 1].ev = "handoff"
          /\ x + 2 <= Len(trace)
          /\ trace[x + 2].ev = "resolved"

\* the attempts of the frame (direct or browser) that made the one at x
SameFrame(x) ==
    {y \in DOMAIN trace : trace[y].ev = "attempt" /\ trace[y].browser = trace[x].browser}

\* C17: the first attempt that succeeds ends the call: nothing is attempted
\* and no wait is made after it, its body is what the call returns, and the
\* attempts its frame made are as many as its index.
C17_FirstSuccessEndsCall ==
    \A x \in DOMAIN trace :
        Succeeded(x) =>
            /\ fpc \in {"return", "done"}
            /\ \A y \in DOMAIN trace : y > x => trace[y].ev \in {"handoff", "resolved"}
            /\ ~retval.none
            /\ trace[x].browser => retval = page_source
            /\ fpc = "done" => fresult = retval
            /\ trace[x].k = Cardinality(SameFrame(x))
            /\ \A y \in SameFrame(x) : y < x => ~Succeeded(y)

\* C17 witness: two attempts failed, the third got its content and the call
\* returned it
C17_Witness ==
    /\ fpc = "done"
    /\ ~fresult.none
    /\ Count("attempt") = 3
    /\ Count("fail") = 2
    /\ Count("wait") = 2
    /\ Succeeded(Len(trace))
    /\ trace[Len(trace)].k = 3

\* ---- batch aggregation

\* every submitted task has completed
AllCompleted == \A x \in DOMAIN futures : tstate[futures[x]] = "done"

\* C18 (as claimed): no task's records are added to the aggregated result
\* before every submitted task has completed, and the run returns only after
\* every submitted task has completed.
C18_AggregateAfterAllComplete ==
    /\ all_data # <<>> => AllCompleted
    /\ spc = "returned" => AllCompleted

\* C18 (amended): no task's result is taken before the last task has been
\* submitted nor before that task itself has completed; results are taken in
\* submission order, while later tasks may still be running; the run returns
\* only after every submitted task has completed and its result was taken.
C18_AggregateAfterOwnCompletion ==
    /\ collect_pos > 1 => submit_pos > Len(scraping_tasks)
    /\ \A x \in DOMAIN futures : x < collect_pos => tstate[futures[x]] = "done"
    /\ \A k \in DOMAIN all_data :
           /\ tstate[origin[k]] = "done"
           /\ \E x \in 1..(collect_pos - 1) : futures[x] = origin[k]
    /\ spc = "returned" => AllCompleted /\ collect_pos = Len(futures) + 1

\* C18 witness: the first task's record is in the aggregate while the second
\* task is still running
C18_Witness ==
    /\ Len(futures) = 2
    /\ collect_pos = 2
    /\ Len(all_data) = 1
    /\ origin[1] = futures[1]
    /\ tstate[futures[2]] = "running"

\* ---- operator hand-off

\* C19 (as claimed): once a browser-mode attempt has detected a challenge,
\* its worker takes no step (no return, no retry, no new attempt) until the
\* "resolved" signal arrives; the document re-read after the signal, not the
\* one that held the challenge, is then the attempt's body.
C19_BlockedUntilResolved ==
    \A x \in DOMAIN trace :
        trace[x].ev = "handoff" =>
            IF x = Len(trace)
            THEN fpc = "input"
            ELSE /\ trace[x + 1].ev = "resolved"
                 /\ x + 1 = Len(trace) => retval = page_source

\* ---- the budget of an escalated call

\* the entries of the trace made in browser mode, of one kind
BrowserCount(ev) ==
    Cardinality({x \in DOMAIN trace : trace[x].ev = ev /\ trace[x].browser})

\* C21: the browser-mode fetch of an escalation starts with attempt 1 and
\* has all max_retries attempts, however many direct attempts were made
\* before; its outcome is the outcome of the call, and when it fails no
\* direct attempt follows.  A call makes at most 2 * max_retries attempts
\* and escalates at most once.
C21_FreshBudgetOnEscalation ==
    /\ Count("attempt") <= 2 * max_retries
    /\ Count("escalate") <= 1
    /\ \A x \in DOMAIN trace :
           trace[x].ev = "escalate" =>
               /\ x < Len(trace) =>
                      /\ trace[x + 1].ev = "attempt"
                      /\ trace[x + 1].browser
                      /\ trace[x + 1].k = 1
               /\ \A y \in DOMAIN trace :
                      (y > x /\ trace[y].ev = "attempt") =>
                          trace[y].browser /\ trace[y].k <= max_retries
    /\ (fpc = "done" /\ Escalated) =>
           /\ fresult = retval
           /\ IF BrowserCount("attempt") = BrowserCount("fail")
              THEN fresult = NoHtml /\ BrowserCount("attempt") = max_retries
              ELSE fresult = page_source

\* C21 witness: the direct call escalated on its last attempt, the browser
\* call failed max_retries times, and the call returned None after
\* 2 * max_retries attempts
C21_Witness ==
    /\ fpc = "done"
    /\ Escalated
    /\ max_retries = 3
    /\ Count("attempt") = 2 * max_retries
    /\ BrowserCount("attempt") = max_retries
    /\ fresult = NoHtml
    /\ \E x \in DOMAIN trace : trace[x].ev = "escalate" /\ trace[x].k = max_retries

\* ---- the cursor stays in range

\* C22: with n >= 1 endpoints the cursor is in 0..n-1 in every reachable
\* state, under any interleaving of concurrent calls, and so is every value
\* of it a call has loaded: no call indexes outside the endpoint set.
C22_CursorInRange ==
    Len(proxies) >= 1 =>
        /\ current_index \in 0..(Len(proxies) - 1)
        /\ \A c \in Callers :
               /\ callers[c].pc = "l74_store" => callers[c].tmp \in 0..(Len(proxies) - 1)
               /\ callers[c].pc \in {"l74_load", "l74_store", "l78"} =>
                      \E x \in DOMAIN proxies : callers[c].proxy = proxies[x]

\* C22 witness: after overlapping calls the cursor has wrapped from the last
\* of three endpoints to the first while another call is between its load
\* and its store
C22_Witness ==
    /\ enabled /\ rotation /\ overlap
    /\ Len(proxies) = 3
    /\ current_index = 0
    /\ Len(call_log) >= 3
    /\ \E c \in Callers : callers[c].pc = "l74_store" /\ callers[c].tmp = 2

\* ---- the order of the aggregate

\* the record lists of the first n submitted tasks, one after the other
RECURSIVE YieldsUpTo(_)
YieldsUpTo(n) ==
    IF n = 0 THEN <<>> ELSE YieldsUpTo(n - 1) \o Yield(futures[n])

\* C23: the list the run returns is the concatenation of the per-task record
\* lists in submission order, which is the order of the task list, whatever
\* order the tasks completed in; while results are being taken the aggregate
\* is that concatenation for the tasks taken so far.
C23_SubmissionOrder ==
    /\ futures = [x \in 1..Len(futures) |-> x]
    /\ spc \in {"with", "returned"} => all_data = YieldsUpTo(collect_pos - 1)
    /\ spc = "returned" =>
           /\ Len(futures) = Len(scraping_tasks)
           /\ all_data = YieldsUpTo(Len(scraping_tasks))

\* C23 witness: the second task completed before the first, both gave a
\* record, and the returned list has the first task's record first
C23_Witness ==
    /\ spc = "returned"
    /\ Len(scraping_tasks) = 2
    /\ done_order = <<2, 1>>
    /\ Len(Yield(1)) = 1 /\ Len(Yield(2)) = 1
    /\ Yield(1) # Yield(2)
    /\ all_data = <<Yield(1)[1], Yield(2)[1]>>

====
